---- MODULE Spec2Model ----
\* Model of the terrain LOD quadtree (Chapter 25 Terrain: QuadTree.h, QuadTree.cpp).
\*
\* Numbers.  The program computes in 32-bit floats; the model computes in
\* integers.  Every input the model draws (terrain sizes, node sizes, camera
\* coordinates, plane coefficients, height ranges) is an integer whose halves
\* and quarters, down to the deepest level built, are integers too, so that
\* size*0.5f and size*0.25f are exact both in the program and in the model.
\* The two comparisons of a distance, sqrtf(s) < t, are modelled on the squares
\* (s < t*t for t > 0, false for t <= 0): for the magnitudes drawn here s and
\* t*t are exactly representable or far apart, and sqrtf is monotone and
\* correctly rounded, so the float comparison has the same outcome.
\*
\* Tree.  A node is named by a number that encodes its path from the root: the
\* root is 0 and the child in slot i (0 NW, 1 NE, 2 SW, 3 SE) of node p is
\* 4*p + i + 1.  mRoot maps every existing node to its fields.  The empty
\* function is the null mRoot; Children[i] of node p is non-null exactly when
\* Child(p, i) is in DOMAIN mRoot.
EXTENDS Integers, Sequences, FiniteSets, TLC

VARIABLES
    mRoot,              \* the tree: path |-> TerrainNode fields
    mTerrainSize,
    mMinNodeSize,
    mMaxLODLevels,
    mLODDistances,      \* sequence of thresholds (index i of the code is i+1 here)
    mVisibleNodeCount,
    mTotalNodeCount,
    mNextObjectCBIndex,
    outNodes,           \* the vector the last call filled (see NoNodes)
    frame,              \* history: the most recent Update call (see NoFrame)
    updateCalled,       \* history: Update has been called on this quadtree
    distancesSupplied,  \* history: SetLODDistances has been called on this quadtree
    twin                \* a second quadtree, driven alongside in SpecPair (see NoTwin)

vars == <<mRoot, mTerrainSize, mMinNodeSize, mMaxLODLevels, mLODDistances,
          mVisibleNodeCount, mTotalNodeCount, mNextObjectCBIndex, outNodes,
          frame, updateCalled, distancesSupplied, twin>>

\* ---------------------------------------------------------------- inputs
Vec3(x, y, z) == [x |-> x, y |-> y, z |-> z]
Plane(a, b, c, d) == [x |-> a, y |-> b, z |-> c, w |-> d]

\* A plane every point satisfies (0*x + 0*y + 0*z + 1 >= 0).
AcceptPlane == Plane(0, 0, 0, 1)

\* Six all-accepting planes.
AcceptAll == [i \in 1..6 |-> AcceptPlane]

\* A box-shaped frustum in front of a camera at z = -10000 that looks down -z:
\* everything it contains has z <= -10001.
LookAway == <<Plane(1, 0, 0, 100), Plane(-1, 0, 0, 100), Plane(0, 1, 0, 50),
              Plane(0, -1, 0, 150), Plane(0, 0, -1, -10001), Plane(0, 0, 1, 11000)>>

\* Keeps x >= 1 (third plane): the root straddles it, the western children are behind it.
EastHalf == [i \in 1..6 |-> IF i = 3 THEN Plane(1, 0, 0, -1) ELSE AcceptPlane]

\* Keeps y >= 110 (fourth plane): the box BuildTree gives a node spans y in
\* [-10, 110] and touches the plane (distance exactly 0); the box SetHeightRange
\* gives the root for the range [20, 40] spans [10, 50] and is behind it.
HighUp == [i \in 1..6 |-> IF i = 4 THEN Plane(0, 1, 0, -110) ELSE AcceptPlane]

\* <<cameraPos, frustumPlanes>> for Update
Views == {<<Vec3(0, 1000, 0), AcceptAll>>,      \* above the terrain centre
          <<Vec3(0, 50, -10000), LookAway>>,    \* far south, looking away
          <<Vec3(768, 50, 0), AcceptAll>>,      \* at 1.5 * 512 from the centre
          <<Vec3(384, 50, 0), AcceptAll>>,      \* at 1.5 * 256 from the centre
          <<Vec3(384, 50, 0), EastHalf>>,
          <<Vec3(0, 1050, 0), HighUp>>}         \* at 1000 from the root's box centre

\* <<terrainSize, minNodeSize, maxLODLevels>>
Configs == {<<512, 64, 5>>, <<256, 64, 2>>, <<512, 0, 3>>, <<0, 64, 3>>}

\* <<minY, maxY>> for SetHeightRange (the region arguments are unused by the code)
HeightRanges == {<<20, 40>>}

DistanceLists == {<<100, 200, 400, 600, 1000>>}

\* ---------------------------------------------------------------- TerrainNode
Root == 0
NoTree == [p \in {} |-> 0]

\* Mutant: the constructor leaves IsVisible set.
TerrainNode_visible ==
    [X |-> 0, Z |-> 0, Size |-> 0, LODLevel |-> 0, MaxLOD |-> 0,
     Bounds |-> [Center |-> Vec3(0, 0, 0), Extents |-> Vec3(0, 0, 0)],
     MinY |-> 0, MaxY |-> 0, IsLeaf |-> TRUE, IsVisible |-> TRUE, ObjectCBIndex |-> 0]

\* TerrainNode::TerrainNode()
TerrainNode ==
    [X |-> 0, Z |-> 0, Size |-> 0, LODLevel |-> 0, MaxLOD |-> 0,
     Bounds |-> [Center |-> Vec3(0, 0, 0), Extents |-> Vec3(0, 0, 0)],
     MinY |-> 0, MaxY |-> 0, IsLeaf |-> TRUE, IsVisible |-> FALSE, ObjectCBIndex |-> 0]

Child(node, i) == 4 * node + i + 1
HasChild(tree, node, i) == Child(node, i) \in DOMAIN tree
Parent(node) == (node - 1) \div 4

\* p is a proper ancestor of q
RECURSIVE IsAncestor(_, _)
IsAncestor(p, q) == q > p /\ (Parent(q) = p \/ IsAncestor(p, Parent(q)))

\* ---------------------------------------------------------------- BoundingBoxAABB
\* The "positive vertex" of the box for one plane.
PositiveVertex(b, pl) ==
    Vec3(IF pl.x >= 0 THEN b.Center.x + b.Extents.x ELSE b.Center.x - b.Extents.x,
         IF pl.y >= 0 THEN b.Center.y + b.Extents.y ELSE b.Center.y - b.Extents.y,
         IF pl.z >= 0 THEN b.Center.z + b.Extents.z ELSE b.Center.z - b.Extents.z)

SignedDistance(pl, v) == pl.x * v.x + pl.y * v.y + pl.z * v.z + pl.w

\* Mutant: a box whose positive vertex lies on a plane is rejected (distance <= 0).
Intersects_le(b, planes) ==
    \A i \in 1..6 : ~(SignedDistance(planes[i], PositiveVertex(b, planes[i])) <= 0)

\* BoundingBoxAABB::Intersects: false at the first plane the positive vertex is behind.
Intersects(b, planes) ==
    \A i \in 1..6 : ~(SignedDistance(planes[i], PositiveVertex(b, planes[i])) < 0)

\* ---------------------------------------------------------------- QuadTree::BuildTree
\* size * 0.5f and size * 0.25f (exact on the inputs drawn, see the header).
HalfSize(size) == size \div 2

\* Mutant: the child offset taken as half the size.
QuarterSize_half(size) == size \div 2

QuarterSize(size) == size \div 4

\* Mutant: a node of exactly the minimum size is still subdivided.
SubdivideCond_ge(size, depth, minNodeSize, maxLODLevels) ==
    size >= minNodeSize /\ depth < maxLODLevels - 1

\* Mutant: a non-positive minimum node size switches subdivision off.
SubdivideCond_guarded(size, depth, minNodeSize, maxLODLevels) ==
    minNodeSize > 0 /\ size > minNodeSize /\ depth < maxLODLevels - 1

\* Mutant: the depth limit is off by one (depth < mMaxLODLevels).
SubdivideCond_depth(size, depth, minNodeSize, maxLODLevels) ==
    size > minNodeSize /\ depth < maxLODLevels

\* The test that decides whether BuildTree gives a node children.
SubdivideCond(size, depth, minNodeSize, maxLODLevels) ==
    size > minNodeSize /\ depth < maxLODLevels - 1

\* Centre of child slot i (0 NW, 1 NE, 2 SW, 3 SE) of a node centred at (x, z).
ChildX(i, x, quarterSize) == IF i \in {0, 2} THEN x - quarterSize ELSE x + quarterSize
ChildZ(i, z, quarterSize) == IF i \in {0, 1} THEN z + quarterSize ELSE z - quarterSize

\* BuildTree on a default-constructed node: the subtree it builds (tree) and the
\* number of times it runs mTotalNodeCount++ (count).
RECURSIVE BuildTree(_, _, _, _, _, _, _)
BuildTree(node, x, z, size, depth, minNodeSize, maxLODLevels) ==
    LET n1 == [TerrainNode EXCEPT !.X = x, !.Z = z, !.Size = size,
                                  !.LODLevel = depth,
                                  !.MaxLOD = maxLODLevels - 1,
                                  !.MinY = 0, !.MaxY = 100]
        n2 == [n1 EXCEPT !.Bounds =
                  [Center  |-> Vec3(x, (n1.MinY + n1.MaxY) \div 2, z),
                   Extents |-> Vec3(size \div 2, (n1.MaxY - n1.MinY) \div 2 + 10, size \div 2)]]
    IN  IF SubdivideCond(size, depth, minNodeSize, maxLODLevels)
        THEN LET halfSize == HalfSize(size)
                 quarterSize == QuarterSize(size)
                 sub(i) == BuildTree(Child(node, i), ChildX(i, x, quarterSize),
                                     ChildZ(i, z, quarterSize), halfSize, depth + 1,
                                     minNodeSize, maxLODLevels)
                 nw == sub(0)
                 ne == sub(1)
                 sw == sub(2)
                 se == sub(3)
             IN  [tree  |-> (node :> [n2 EXCEPT !.IsLeaf = FALSE])
                            @@ nw.tree @@ ne.tree @@ sw.tree @@ se.tree,
                  count |-> 1 + nw.count + ne.count + sw.count + se.count]
        ELSE [tree |-> (node :> [n2 EXCEPT !.IsLeaf = TRUE]), count |-> 1]

\* Mutant: the default thresholds grow with the level index (exponent i).
DefaultLODDistances_ascending(minNodeSize, maxLODLevels) ==
    [k \in 1..maxLODLevels |-> minNodeSize * (2 ^ (k - 1)) * 2]

\* The default thresholds of Initialize: minNodeSize * (1 << (maxLODLevels - i - 1)) * 2
\* for i = 0 .. maxLODLevels-1 (element i of the code is element i+1 here).
DefaultLODDistances(minNodeSize, maxLODLevels) ==
    [k \in 1..maxLODLevels |-> minNodeSize * (2 ^ (maxLODLevels - (k - 1) - 1)) * 2]

\* ---------------------------------------------------------------- LOD and subdivision
\* Mutant: distance <= mLODDistances[i].
DistLess_le(distSq, t) == t >= 0 /\ distSq <= t * t

\* sqrtf(distSq) < t, on the squares.
DistLess(distSq, t) == t > 0 /\ distSq < t * t

\* QuadTree::CalculateLOD: index of the first threshold the distance is below.
CalculateLOD(n, cam, dists, maxLODLevels) ==
    LET dx == cam.x - n.X
        dy == cam.y - (n.MinY + n.MaxY) \div 2
        dz == cam.z - n.Z
        distSq == dx * dx + dy * dy + dz * dz
        hits == {i \in 1..Len(dists) : DistLess(distSq, dists[i])}
    IN  IF hits = {} THEN maxLODLevels - 1
        ELSE (CHOOSE i \in hits : \A j \in hits : i <= j) - 1

\* Mutant: distance <= node->Size * 1.5f.
CloserThanThreshold_le(distSq, size) == size > 0 /\ 4 * distSq <= 9 * size * size

\* distance < node->Size * 1.5f, on the squares: 4*d^2 < 9*Size^2 for Size > 0.
CloserThanThreshold(distSq, size) == size > 0 /\ 4 * distSq < 9 * size * size

\* Mutant: the node is subdivided when its LOD index is finer than its MaxLOD.
ShouldSubdivide_byLOD(n, cam) ==
    IF n.IsLeaf THEN FALSE ELSE n.LODLevel < n.MaxLOD

\* Mutant: the distance includes the vertical offset, as in CalculateLOD.
ShouldSubdivide_3d(n, cam) ==
    IF n.IsLeaf THEN FALSE
    ELSE LET dx == cam.x - n.X
             dy == cam.y - (n.MinY + n.MaxY) \div 2
             dz == cam.z - n.Z
         IN  CloserThanThreshold(dx * dx + dy * dy + dz * dz, n.Size)

\* QuadTree::ShouldSubdivide
ShouldSubdivide(n, cam) ==
    IF n.IsLeaf THEN FALSE
    ELSE LET dx == cam.x - n.X
             dz == cam.z - n.Z
         IN  CloserThanThreshold(dx * dx + dz * dz, n.Size)

\* ---------------------------------------------------------------- QuadTree::UpdateNode
\* u = [tree, mVisibleNodeCount, mNextObjectCBIndex, mLODDistances,
\*      mMaxLODLevels, visited, activated]; returns u after the call.
RECURSIVE UpdateNode(_, _, _, _)
RECURSIVE UpdateChildren(_, _, _, _, _)

\* Mutant: a node that fails the frustum test clears IsVisible in its whole subtree.
UpdateNode_clears(u, node, cam, planes) ==
    LET vis == Intersects(u.tree[node].Bounds, planes)
        u1 == [u EXCEPT !.tree[node].IsVisible = vis, !.visited = Append(@, node)]
    IN  IF ~vis
        THEN [u1 EXCEPT !.tree = [n \in DOMAIN u1.tree |->
                                     IF IsAncestor(node, n)
                                     THEN [u1.tree[n] EXCEPT !.IsVisible = FALSE]
                                     ELSE u1.tree[n]]]
        ELSE LET desiredLOD == CalculateLOD(u1.tree[node], cam, u1.mLODDistances,
                                            u1.mMaxLODLevels)
                 u2 == [u1 EXCEPT !.tree[node].LODLevel = desiredLOD]
             IN  IF ~u2.tree[node].IsLeaf /\ ShouldSubdivide(u2.tree[node], cam)
                 THEN UpdateChildren([u2 EXCEPT !.tree[node].IsVisible = FALSE],
                                     node, 0, cam, planes)
                 ELSE [u2 EXCEPT !.tree[node].ObjectCBIndex = u2.mNextObjectCBIndex,
                                 !.mNextObjectCBIndex = @ + 1,
                                 !.mVisibleNodeCount = @ + 1,
                                 !.activated = @ \cup {node}]

\* Mutant: the loop over the children stops one short (i < 3).
UpdateChildren_short(u, node, i, cam, planes) ==
    IF i >= 3 THEN u
    ELSE IF HasChild(u.tree, node, i)
         THEN UpdateChildren(UpdateNode(u, Child(node, i), cam, planes),
                             node, i + 1, cam, planes)
         ELSE UpdateChildren(u, node, i + 1, cam, planes)

UpdateNode(u, node, cam, planes) ==
    LET vis == Intersects(u.tree[node].Bounds, planes)
        u1 == [u EXCEPT !.tree[node].IsVisible = vis, !.visited = Append(@, node)]
    IN  IF ~vis THEN u1
        ELSE LET desiredLOD == CalculateLOD(u1.tree[node], cam, u1.mLODDistances,
                                            u1.mMaxLODLevels)
                 u2 == [u1 EXCEPT !.tree[node].LODLevel = desiredLOD]
             IN  IF ~u2.tree[node].IsLeaf /\ ShouldSubdivide(u2.tree[node], cam)
                 THEN UpdateChildren([u2 EXCEPT !.tree[node].IsVisible = FALSE],
                                     node, 0, cam, planes)
                 ELSE [u2 EXCEPT !.tree[node].ObjectCBIndex = u2.mNextObjectCBIndex,
                                 !.mNextObjectCBIndex = @ + 1,
                                 !.mVisibleNodeCount = @ + 1,
                                 !.activated = @ \cup {node}]

\* The loop "for (i = 0; i < 4; ++i) if (Children[i]) UpdateNode(Children[i])" from slot i on.
UpdateChildren(u, node, i, cam, planes) ==
    IF i = 4 THEN u
    ELSE IF HasChild(u.tree, node, i)
         THEN UpdateChildren(UpdateNode(u, Child(node, i), cam, planes),
                             node, i + 1, cam, planes)
         ELSE UpdateChildren(u, node, i + 1, cam, planes)

\* ---------------------------------------------------------------- QuadTree::CollectVisibleNodes
\* Mutant: the children of a visible node are collected too.
RECURSIVE CollectVisibleNodes_descends(_, _)
CollectVisibleNodes_descends(tree, node) ==
    LET sub(i) == IF HasChild(tree, node, i)
                  THEN CollectVisibleNodes_descends(tree, Child(node, i))
                  ELSE <<>>
    IN  (IF tree[node].IsVisible THEN <<node>> ELSE <<>>)
        \o (IF ~tree[node].IsLeaf THEN sub(0) \o sub(1) \o sub(2) \o sub(3) ELSE <<>>)

\* Mutant: the children are taken from slot 3 down to slot 0.
RECURSIVE CollectVisibleNodes_backwards(_, _)
CollectVisibleNodes_backwards(tree, node) ==
    IF tree[node].IsVisible THEN <<node>>
    ELSE IF ~tree[node].IsLeaf
         THEN LET sub(i) == IF HasChild(tree, node, i)
                            THEN CollectVisibleNodes_backwards(tree, Child(node, i))
                            ELSE <<>>
              IN  sub(3) \o sub(2) \o sub(1) \o sub(0)
         ELSE <<>>

\* The sequence the call appends to outNodes, in push_back order.
RECURSIVE CollectVisibleNodes(_, _)
CollectVisibleNodes(tree, node) ==
    IF tree[node].IsVisible THEN <<node>>
    ELSE IF ~tree[node].IsLeaf
         THEN LET sub(i) == IF HasChild(tree, node, i)
                            THEN CollectVisibleNodes(tree, Child(node, i))
                            ELSE <<>>
              IN  sub(0) \o sub(1) \o sub(2) \o sub(3)
         ELSE <<>>

\* What GetVisibleNodes leaves in the caller's vector for a given tree.
VisibleNodesOf(tree) ==
    IF Root \in DOMAIN tree THEN CollectVisibleNodes(tree, Root) ELSE <<>>

\* ---------------------------------------------------------------- the operations
\* The history variable frame records the most recent Update call: its
\* arguments, the thresholds in force during it (lodDistances), the nodes
\* UpdateNode ran on (visited, in call order), the nodes that took the
\* "use this node" branch (activated), and whether the call repeated the one
\* before it: same camera, same planes, same thresholds, on the tree that call
\* left (repeated).  It is valid from that
\* Update until the tree it ran on is replaced (Initialize) or a box it tested
\* is changed (SetHeightRange).
NoFrame == [valid |-> FALSE, cameraPos |-> Vec3(0, 0, 0), frustumPlanes |-> AcceptAll,
            lodDistances |-> <<>>, visited |-> <<>>, activated |-> {},
            repeated |-> FALSE]

\* outNodes is the out-parameter of the call just made: GetVisibleNodes fills the
\* caller's vector (filled, nodes in push_back order); the other operations take
\* no vector, and after them outNodes is NoNodes.
NoNodes == [filled |-> FALSE, nodes |-> <<>>]

\* Update(cam, planes) called now repeats the most recent Update call.
Repeats(cam, planes) ==
    /\ frame.valid
    /\ frame.cameraPos = cam
    /\ frame.frustumPlanes = planes
    /\ frame.lodDistances = mLODDistances

\* The second quadtree of SpecPair, as constructed: the members Update and
\* GetVisibleNodes use (it is initialized with the arguments of the first, so
\* mMaxLODLevels is shared), the vector its GetVisibleNodes filled (nodes), the
\* thresholds and activated nodes of its most recent Update, and heightsDiffer:
\* at some time SetHeightRange has been called on the first quadtree and not
\* on this one.
NoTwin ==
    [mRoot |-> NoTree, mLODDistances |-> <<>>, mVisibleNodeCount |-> 0,
     mNextObjectCBIndex |-> 0, nodes |-> <<>>, lodDistances |-> <<>>,
     activated |-> {}, heightsDiffer |-> FALSE]

\* QuadTree::QuadTree()
Init ==
    /\ mRoot = NoTree
    /\ mTerrainSize = 0
    /\ mMinNodeSize = 0
    /\ mMaxLODLevels = 0
    /\ mLODDistances = <<>>
    /\ mVisibleNodeCount = 0
    /\ mTotalNodeCount = 0
    /\ mNextObjectCBIndex = 0
    /\ outNodes = NoNodes
    /\ frame = NoFrame
    /\ updateCalled = FALSE
    /\ distancesSupplied = FALSE
    /\ twin = NoTwin

\* BuildTree(mRoot.get(), 0.0f, 0.0f, terrainSize, 0) for each configuration drawn
\* (a constant table, so that the tree is computed once per configuration).
Built == [c \in Configs |-> BuildTree(Root, 0, 0, c[1], 0, c[2], c[3])]

\* Mutant: Initialize does not reset mTotalNodeCount before building.
Initialize_accumulates(terrainSize, minNodeSize, maxLODLevels) ==
    /\ mTerrainSize' = terrainSize
    /\ mMinNodeSize' = minNodeSize
    /\ mMaxLODLevels' = maxLODLevels
    /\ mLODDistances' = IF mLODDistances = <<>>
                        THEN DefaultLODDistances(minNodeSize, maxLODLevels)
                        ELSE mLODDistances
    /\ LET built == Built[<<terrainSize, minNodeSize, maxLODLevels>>]
       IN  /\ mRoot' = built.tree
           /\ mTotalNodeCount' = mTotalNodeCount + built.count
    /\ frame' = NoFrame
    /\ outNodes' = NoNodes
    /\ UNCHANGED <<mVisibleNodeCount, mNextObjectCBIndex, updateCalled,
                   distancesSupplied>>

\* QuadTree::Initialize
Initialize(terrainSize, minNodeSize, maxLODLevels) ==
    /\ mTerrainSize' = terrainSize
    /\ mMinNodeSize' = minNodeSize
    /\ mMaxLODLevels' = maxLODLevels
    /\ mLODDistances' = IF mLODDistances = <<>>
                        THEN DefaultLODDistances(minNodeSize, maxLODLevels)
                        ELSE mLODDistances
    /\ LET built == Built[<<terrainSize, minNodeSize, maxLODLevels>>]
       IN  /\ mRoot' = built.tree
           /\ mTotalNodeCount' = 0 + built.count
    /\ frame' = NoFrame
    /\ outNodes' = NoNodes
    /\ UNCHANGED <<mVisibleNodeCount, mNextObjectCBIndex, updateCalled,
                   distancesSupplied>>

\* QuadTree::SetLODDistances
SetLODDistances(distances) ==
    /\ mLODDistances' = distances
    /\ distancesSupplied' = TRUE
    /\ outNodes' = NoNodes
    /\ UNCHANGED <<mRoot, mTerrainSize, mMinNodeSize, mMaxLODLevels, mVisibleNodeCount,
                   mTotalNodeCount, mNextObjectCBIndex, frame, updateCalled>>

\* Mutant: Update resets the total node count along with the per-frame counters.
Update_resetsTotal(cam, planes) ==
    /\ LET u0 == [tree |-> mRoot, mVisibleNodeCount |-> 0, mNextObjectCBIndex |-> 0,
                  mLODDistances |-> mLODDistances, mMaxLODLevels |-> mMaxLODLevels,
                  visited |-> <<>>, activated |-> {}]
           u  == IF Root \in DOMAIN mRoot THEN UpdateNode(u0, Root, cam, planes) ELSE u0
       IN  /\ mRoot' = u.tree
           /\ mVisibleNodeCount' = u.mVisibleNodeCount
           /\ mNextObjectCBIndex' = u.mNextObjectCBIndex
           /\ frame' = [valid |-> TRUE, cameraPos |-> cam, frustumPlanes |-> planes,
                        lodDistances |-> mLODDistances,
                        visited |-> u.visited, activated |-> u.activated,
                        repeated |-> Repeats(cam, planes)]
    /\ mTotalNodeCount' = 0
    /\ updateCalled' = TRUE
    /\ outNodes' = NoNodes
    /\ UNCHANGED <<mTerrainSize, mMinNodeSize, mMaxLODLevels, mLODDistances,
                   distancesSupplied>>

\* Mutant: Update does not reset mNextObjectCBIndex.
Update_keepsSlots(cam, planes) ==
    /\ LET u0 == [tree |-> mRoot, mVisibleNodeCount |-> 0,
                  mNextObjectCBIndex |-> mNextObjectCBIndex,
                  mLODDistances |-> mLODDistances, mMaxLODLevels |-> mMaxLODLevels,
                  visited |-> <<>>, activated |-> {}]
           u  == IF Root \in DOMAIN mRoot THEN UpdateNode(u0, Root, cam, planes) ELSE u0
       IN  /\ mRoot' = u.tree
           /\ mVisibleNodeCount' = u.mVisibleNodeCount
           /\ mNextObjectCBIndex' = u.mNextObjectCBIndex
           /\ frame' = [valid |-> TRUE, cameraPos |-> cam, frustumPlanes |-> planes,
                        lodDistances |-> mLODDistances,
                        visited |-> u.visited, activated |-> u.activated,
                        repeated |-> Repeats(cam, planes)]
    /\ updateCalled' = TRUE
    /\ outNodes' = NoNodes
    /\ UNCHANGED <<mTerrainSize, mMinNodeSize, mMaxLODLevels, mLODDistances,
                   mTotalNodeCount, distancesSupplied>>

\* QuadTree::Update
Update(cam, planes) ==
    /\ LET u0 == [tree |-> mRoot, mVisibleNodeCount |-> 0, mNextObjectCBIndex |-> 0,
                  mLODDistances |-> mLODDistances, mMaxLODLevels |-> mMaxLODLevels,
                  visited |-> <<>>, activated |-> {}]
           u  == IF Root \in DOMAIN mRoot THEN UpdateNode(u0, Root, cam, planes) ELSE u0
       IN  /\ mRoot' = u.tree
           /\ mVisibleNodeCount' = u.mVisibleNodeCount
           /\ mNextObjectCBIndex' = u.mNextObjectCBIndex
           /\ frame' = [valid |-> TRUE, cameraPos |-> cam, frustumPlanes |-> planes,
                        lodDistances |-> mLODDistances,
                        visited |-> u.visited, activated |-> u.activated,
                        repeated |-> Repeats(cam, planes)]
    /\ updateCalled' = TRUE
    /\ outNodes' = NoNodes
    /\ UNCHANGED <<mTerrainSize, mMinNodeSize, mMaxLODLevels, mLODDistances,
                   mTotalNodeCount, distancesSupplied>>

\* QuadTree::GetVisibleNodes
GetVisibleNodes ==
    /\ outNodes' = [filled |-> TRUE, nodes |-> VisibleNodesOf(mRoot)]
    /\ UNCHANGED <<mRoot, mTerrainSize, mMinNodeSize, mMaxLODLevels, mLODDistances,
                   mVisibleNodeCount, mTotalNodeCount, mNextObjectCBIndex, frame,
                   updateCalled, distancesSupplied>>

\* Mutant: the range is given to every node whose footprint overlaps the region.
SetHeightRange_region(x, z, size, minY, maxY) ==
    /\ mRoot' = [n \in DOMAIN mRoot |->
                  IF /\ 2 * (mRoot[n].X - x) < mRoot[n].Size + size
                     /\ 2 * (x - mRoot[n].X) < mRoot[n].Size + size
                     /\ 2 * (mRoot[n].Z - z) < mRoot[n].Size + size
                     /\ 2 * (z - mRoot[n].Z) < mRoot[n].Size + size
                  THEN [mRoot[n] EXCEPT !.MinY = minY,
                                        !.MaxY = maxY,
                                        !.Bounds.Center.y = (minY + maxY) \div 2,
                                        !.Bounds.Extents.y = (maxY - minY) \div 2 + 10]
                  ELSE mRoot[n]]
    /\ frame' = NoFrame
    /\ outNodes' = NoNodes
    /\ UNCHANGED <<mTerrainSize, mMinNodeSize, mMaxLODLevels, mLODDistances,
                   mVisibleNodeCount, mTotalNodeCount, mNextObjectCBIndex,
                   updateCalled, distancesSupplied>>

\* The tree after the body of SetHeightRange.
WithHeightRange(tree, minY, maxY) ==
    IF Root \in DOMAIN tree
    THEN [tree EXCEPT ![Root].MinY = minY,
                      ![Root].MaxY = maxY,
                      ![Root].Bounds.Center.y = (minY + maxY) \div 2,
                      ![Root].Bounds.Extents.y = (maxY - minY) \div 2 + 10]
    ELSE tree

\* QuadTree::SetHeightRange (x, z and size are ignored by the code)
SetHeightRange(x, z, size, minY, maxY) ==
    /\ mRoot' = WithHeightRange(mRoot, minY, maxY)
    /\ frame' = NoFrame
    /\ outNodes' = NoNodes
    /\ UNCHANGED <<mTerrainSize, mMinNodeSize, mMaxLODLevels, mLODDistances,
                   mVisibleNodeCount, mTotalNodeCount, mNextObjectCBIndex,
                   updateCalled, distancesSupplied>>

\* <<x, z, size>> for SetHeightRange
Regions == {<<0, 0, 512>>, <<128, 128, 256>>}

Next ==
    \/ \E c \in Configs : Initialize(c[1], c[2], c[3]) /\ UNCHANGED twin
    \/ \E d \in DistanceLists : SetLODDistances(d) /\ UNCHANGED twin
    \/ \E v \in Views : Update(v[1], v[2]) /\ UNCHANGED twin
    \/ GetVisibleNodes /\ UNCHANGED twin
    \/ \E r \in Regions, h \in HeightRanges :
           SetHeightRange(r[1], r[2], r[3], h[1], h[2]) /\ UNCHANGED twin

Spec == Init /\ [][Next]_vars

\* ---------------------------------------------------------------- two quadtrees
\* SpecPair drives two QuadTree objects with the same calls: the same
\* Initialize, the same Update and GetVisibleNodes, SetLODDistances with a list
\* each, and SetHeightRange either on both or on the first only.
PairConfigs == {<<256, 64, 2>>, <<512, 0, 3>>}

\* <<thresholds for the first quadtree, thresholds for the second>>
PairDistanceLists == {<<<<100, 200, 400, 600, 1000>>, <<380, 3000>>>>,
                      <<<<380, 3000>>, <<380, 3000>>>>}

PairViews == {<<Vec3(0, 420, 0), AcceptAll>>,
              <<Vec3(384, 50, 0), EastHalf>>,
              <<Vec3(0, 1050, 0), HighUp>>}

\* QuadTree::Initialize on the second quadtree
TwinInitialize(t, terrainSize, minNodeSize, maxLODLevels) ==
    [t EXCEPT !.mRoot = Built[<<terrainSize, minNodeSize, maxLODLevels>>].tree,
              !.mLODDistances = IF @ = <<>>
                                THEN DefaultLODDistances(minNodeSize, maxLODLevels)
                                ELSE @,
              !.nodes = <<>>,
              !.lodDistances = <<>>,
              !.activated = {}]

\* QuadTree::Update on the second quadtree
TwinUpdate(t, cam, planes) ==
    LET u0 == [tree |-> t.mRoot, mVisibleNodeCount |-> 0, mNextObjectCBIndex |-> 0,
               mLODDistances |-> t.mLODDistances, mMaxLODLevels |-> mMaxLODLevels,
               visited |-> <<>>, activated |-> {}]
        u  == IF Root \in DOMAIN t.mRoot THEN UpdateNode(u0, Root, cam, planes) ELSE u0
    IN  [t EXCEPT !.mRoot = u.tree,
                  !.mVisibleNodeCount = u.mVisibleNodeCount,
                  !.mNextObjectCBIndex = u.mNextObjectCBIndex,
                  !.nodes = <<>>,
                  !.lodDistances = t.mLODDistances,
                  !.activated = u.activated]

PairInitialize(terrainSize, minNodeSize, maxLODLevels) ==
    /\ Initialize(terrainSize, minNodeSize, maxLODLevels)
    /\ twin' = TwinInitialize(twin, terrainSize, minNodeSize, maxLODLevels)

PairSetLODDistances(distances, twinDistances) ==
    /\ SetLODDistances(distances)
    /\ twin' = [twin EXCEPT !.mLODDistances = twinDistances, !.nodes = <<>>]

PairUpdate(cam, planes) ==
    /\ Update(cam, planes)
    /\ twin' = TwinUpdate(twin, cam, planes)

PairGetVisibleNodes ==
    /\ GetVisibleNodes
    /\ twin' = [twin EXCEPT !.nodes = VisibleNodesOf(twin.mRoot)]

PairSetHeightRange(x, z, size, minY, maxY) ==
    /\ SetHeightRange(x, z, size, minY, maxY)
    /\ twin' = [twin EXCEPT !.mRoot = WithHeightRange(@, minY, maxY), !.nodes = <<>>]

\* SetHeightRange on the first quadtree only
FirstSetHeightRange(x, z, size, minY, maxY) ==
    /\ SetHeightRange(x, z, size, minY, maxY)
    /\ twin' = [twin EXCEPT !.heightsDiffer = Root \in DOMAIN mRoot, !.nodes = <<>>]

NextPair ==
    \/ \E c \in PairConfigs : PairInitialize(c[1], c[2], c[3])
    \/ \E d \in PairDistanceLists : PairSetLODDistances(d[1], d[2])
    \/ \E v \in PairViews : PairUpdate(v[1], v[2])
    \/ PairGetVisibleNodes
    \/ \E h \in HeightRanges : PairSetHeightRange(0, 0, 512, h[1], h[2])
    \/ \E h \in HeightRanges : FirstSetHeightRange(0, 0, 512, h[1], h[2])

SpecPair == Init /\ [][NextPair]_vars

\* ================================================================ properties
Nodes == DOMAIN mRoot
Returned == outNodes.nodes
InReturned(n) == \E k \in 1..Len(Returned) : Returned[k] = n

\* An Update has run on the current tree and GetVisibleNodes has just been called.
AfterCycle == frame.valid /\ outNodes.filled

\* All eight corners of box b have a negative signed distance to plane pl.
EntirelyBehind(b, pl) ==
    \A sx \in {-1, 1}, sy \in {-1, 1}, sz \in {-1, 1} :
        SignedDistance(pl, Vec3(b.Center.x + sx * b.Extents.x,
                                b.Center.y + sy * b.Extents.y,
                                b.Center.z + sz * b.Extents.z)) < 0

\* The node's box lies entirely behind one of the planes of the most recent Update.
Culled(n) == \E i \in 1..6 : EntirelyBehind(mRoot[n].Bounds, frame.frustumPlanes[i])

\* Squared horizontal (X/Z) distance from the camera of the most recent Update
\* to the centre of n.
HorizDistSq(n) ==
    (frame.cameraPos.x - mRoot[n].X) * (frame.cameraPos.x - mRoot[n].X)
    + (frame.cameraPos.z - mRoot[n].Z) * (frame.cameraPos.z - mRoot[n].Z)

WasVisited(n) == \E k \in 1..Len(frame.visited) : frame.visited[k] = n

\* The quadtree holds the tree of Initialize(512, 64, 5).
AppConfigured ==
    Root \in Nodes /\ mTerrainSize = 512 /\ mMinNodeSize = 64 /\ mMaxLODLevels = 5

\* C1: after Update and GetVisibleNodes, no node whose box lies entirely behind
\* one of the six planes of that Update is returned, nor any of its descendants.
C1_CulledNotReturned ==
    AfterCycle =>
        \A n \in Nodes : Culled(n) =>
            \A m \in Nodes : (m = n \/ IsAncestor(n, m)) => ~InReturned(m)

\* C2: after Update and GetVisibleNodes, the k-th returned node (from 0) has
\* ObjectCBIndex k, and there are GetVisibleNodeCount() returned nodes, so the
\* slots are exactly 0..N-1.
C2_SlotsContiguous ==
    AfterCycle =>
        /\ Len(Returned) = mVisibleNodeCount
        /\ \A k \in 1..Len(Returned) :
               /\ mRoot[Returned[k]].ObjectCBIndex = k - 1
               /\ mRoot[Returned[k]].ObjectCBIndex < mVisibleNodeCount

\* C3: the sequence GetVisibleNodes returns never holds a node together with
\* one of its ancestors.
C3_NoAncestorPairs ==
    outNodes.filled =>
        \A j, k \in 1..Len(Returned) : ~IsAncestor(Returned[j], Returned[k])

\* C3 witness: a returned node has a descendant whose IsVisible flag is set
\* (left by an earlier Update), and several nodes are returned.
C3_Witness ==
    /\ AfterCycle
    /\ Len(Returned) >= 2
    /\ \E k \in 1..Len(Returned) : \E m \in Nodes :
           IsAncestor(Returned[k], m) /\ mRoot[m].IsVisible

\* C4: GetVisibleNodes returns as many nodes as the most recent Update counted.
C4_CountMatches ==
    AfterCycle => Len(Returned) = mVisibleNodeCount

\* C5: after Update, a node's IsVisible flag is set exactly when this Update
\* activated the node (no flag survives from an earlier Update).
C5_AllFlagsRecomputed ==
    frame.valid => \A n \in Nodes : mRoot[n].IsVisible <=> n \in frame.activated

\* C6: when the root fails the frustum test of the Update (camera at
\* (0, 50, -10000), frustum looking away), the count is 0 and nothing is returned.
C6_RootCulledEmpty ==
    (/\ AfterCycle
     /\ Root \in Nodes
     /\ frame.cameraPos = Vec3(0, 50, -10000)
     /\ frame.frustumPlanes = LookAway
     /\ ~Intersects(mRoot[Root].Bounds, frame.frustumPlanes))
    => (mVisibleNodeCount = 0 /\ Returned = <<>>)

\* C7 as claimed: Initialize(512, 64, 5) gives GetTotalNodeCount() = 341.
C7_Total341 == AppConfigured => mTotalNodeCount = 341

\* C7 amended: Initialize(512, 64, 5) gives GetTotalNodeCount() = 85
\* (= 1 + 4 + 16 + 64: the nodes of size 64, at depth 3, are leaves).
C7_Total85 ==
    AppConfigured =>
        /\ mTotalNodeCount = 85
        /\ \A n \in Nodes : mRoot[n].IsLeaf <=> mRoot[n].Size = 64

\* C7 witness: the tree of Initialize(512, 64, 5) has been built and counted,
\* and an Update has walked it.
C7_Witness == AppConfigured /\ frame.valid /\ mTotalNodeCount = 85

\* The state C8 is about: tree of Initialize(512, 64, 5), default thresholds,
\* Update from (0, 1000, 0) with an all-accepting frustum, then GetVisibleNodes.
C8_Case ==
    /\ AppConfigured
    /\ mLODDistances = DefaultLODDistances(64, 5)
    /\ AfterCycle
    /\ frame.cameraPos = Vec3(0, 1000, 0)
    /\ frame.frustumPlanes = AcceptAll

\* C8 as claimed: only the root is active.
C8_RootOnly == C8_Case => (Returned = <<Root>> /\ mVisibleNodeCount = 1)

\* C8 amended: the camera is at horizontal distance 0 from the centre, so the
\* root and its four children are subdivided; 28 nodes are active: the 12 nodes
\* of size 128 away from the centre and the 16 leaves of size 64 around it.
C8_TwentyEight ==
    C8_Case =>
        /\ mVisibleNodeCount = 28
        /\ Len(Returned) = 28
        /\ ~InReturned(Root)
        /\ Cardinality({k \in 1..Len(Returned) : mRoot[Returned[k]].Size = 128}) = 12
        /\ Cardinality({k \in 1..Len(Returned) : mRoot[Returned[k]].Size = 64}) = 16

\* C8 witness: the cycle C8 describes has run and returned nodes below the root.
C8_Witness == C8_Case /\ Len(Returned) > 1 /\ ~InReturned(Root)

\* C9: a non-leaf node that passes the frustum test is activated, and none of
\* its children visited, when 4*d^2 = 9*S^2; it is not activated, and all four
\* children are visited, when 4*d^2 < 9*S^2 (d horizontal distance, S its size).
C9_Threshold ==
    frame.valid =>
        \A n \in Nodes :
            (/\ WasVisited(n)
             /\ ~mRoot[n].IsLeaf
             /\ Intersects(mRoot[n].Bounds, frame.frustumPlanes))
            => /\ (4 * HorizDistSq(n) = 9 * mRoot[n].Size * mRoot[n].Size)
                   => /\ n \in frame.activated
                      /\ \A i \in 0..3 : ~WasVisited(Child(n, i))
               /\ (4 * HorizDistSq(n) < 9 * mRoot[n].Size * mRoot[n].Size)
                   => /\ n \notin frame.activated
                      /\ \A i \in 0..3 : WasVisited(Child(n, i))

\* C9 witness: a visited non-leaf node exactly at distance 1.5 * Size.
C9_Witness ==
    /\ frame.valid
    /\ \E n \in Nodes :
           /\ WasVisited(n)
           /\ ~mRoot[n].IsLeaf
           /\ Intersects(mRoot[n].Bounds, frame.frustumPlanes)
           /\ 4 * HorizDistSq(n) = 9 * mRoot[n].Size * mRoot[n].Size

\* C10: every non-leaf node has its four children, each of half its size, centred
\* a quarter of its size away in the order NW, NE, SW, SE; their footprints lie
\* inside the parent's, do not overlap, and have the parent's area in total.
C10_Tiling ==
    \A n \in Nodes : ~mRoot[n].IsLeaf =>
        LET S == mRoot[n].Size
            c(i) == mRoot[Child(n, i)]
            Overlap(a, b) == /\ 2 * a.X - a.Size < 2 * b.X + b.Size
                             /\ 2 * b.X - b.Size < 2 * a.X + a.Size
                             /\ 2 * a.Z - a.Size < 2 * b.Z + b.Size
                             /\ 2 * b.Z - b.Size < 2 * a.Z + a.Size
        IN  /\ \A i \in 0..3 : HasChild(mRoot, n, i) /\ 2 * c(i).Size = S
            /\ 4 * (c(0).X - mRoot[n].X) = -S /\ 4 * (c(0).Z - mRoot[n].Z) = S
            /\ 4 * (c(1).X - mRoot[n].X) = S  /\ 4 * (c(1).Z - mRoot[n].Z) = S
            /\ 4 * (c(2).X - mRoot[n].X) = -S /\ 4 * (c(2).Z - mRoot[n].Z) = -S
            /\ 4 * (c(3).X - mRoot[n].X) = S  /\ 4 * (c(3).Z - mRoot[n].Z) = -S
            /\ \A i \in 0..3 :
                   /\ 2 * mRoot[n].X - S <= 2 * c(i).X - c(i).Size
                   /\ 2 * c(i).X + c(i).Size <= 2 * mRoot[n].X + S
                   /\ 2 * mRoot[n].Z - S <= 2 * c(i).Z - c(i).Size
                   /\ 2 * c(i).Z + c(i).Size <= 2 * mRoot[n].Z + S
            /\ \A i, j \in 0..3 : i # j => ~Overlap(c(i), c(j))
            /\ c(0).Size * c(0).Size + c(1).Size * c(1).Size
               + c(2).Size * c(2).Size + c(3).Size * c(3).Size = S * S

\* C10 witness: a tree with a non-leaf node below the root, after an Update.
C10_Witness ==
    /\ frame.valid
    /\ \E n \in Nodes : n # Root /\ ~mRoot[n].IsLeaf

\* Depth of a node: the number of Children links from the root to it.
RECURSIVE Depth(_)
Depth(n) == IF n = Root THEN 0 ELSE 1 + Depth(Parent(n))

\* The slots of node n that hold a child.
ChildSlots(n) == {i \in 0..3 : HasChild(mRoot, n, i)}

\* C11: in every state with a tree, GetTotalNodeCount() is the number of nodes
\* of the tree, which is the number the last Initialize created, and the tree
\* has the nodes that Initialize created, each where it was created (same
\* centre, size and leaf flag), whatever Update, GetVisibleNodes and
\* SetHeightRange calls followed.
C11_TreeFixed ==
    Root \in Nodes =>
        LET built == Built[<<mTerrainSize, mMinNodeSize, mMaxLODLevels>>]
        IN  /\ mTotalNodeCount = Cardinality(Nodes)
            /\ mTotalNodeCount = built.count
            /\ Nodes = DOMAIN built.tree
            /\ \A n \in Nodes :
                   /\ mRoot[n].X = built.tree[n].X
                   /\ mRoot[n].Z = built.tree[n].Z
                   /\ mRoot[n].Size = built.tree[n].Size
                   /\ mRoot[n].IsLeaf = built.tree[n].IsLeaf
                   /\ ChildSlots(n) = {i \in 0..3 : HasChild(built.tree, n, i)}

\* C11 witness: the 85-node tree after SetHeightRange, Update and GetVisibleNodes.
C11_Witness ==
    /\ AfterCycle
    /\ Root \in Nodes
    /\ mRoot[Root].MinY = 20
    /\ mTotalNodeCount = 85
    /\ mVisibleNodeCount > 1

\* The tree is a single leaf: the root has no children and the count is 1.
SingleLeaf ==
    /\ Nodes = {Root}
    /\ mRoot[Root].IsLeaf
    /\ ChildSlots(Root) = {}
    /\ mTotalNodeCount = 1

\* C12 as claimed: Initialize with terrainSize <= 0 or minNodeSize <= 0 (and
\* maxLODLevels >= 1) builds a single leaf.
C12_DegenerateSingleLeaf ==
    (Root \in Nodes /\ mMaxLODLevels >= 1 /\ (mTerrainSize <= 0 \/ mMinNodeSize <= 0))
    => SingleLeaf

\* C12 amended: Initialize with terrainSize <= minNodeSize (as with
\* terrainSize <= 0 and minNodeSize >= 0) builds a single leaf; with
\* minNodeSize <= 0 < terrainSize and maxLODLevels >= 2 the root is not a leaf,
\* has its four children, and the count is at least 5.
C12_SingleLeafIffNotLarger ==
    (Root \in Nodes /\ mMaxLODLevels >= 1) =>
        /\ (mTerrainSize <= mMinNodeSize) => SingleLeaf
        /\ (mMinNodeSize <= 0 /\ mTerrainSize > 0 /\ mMaxLODLevels >= 2)
               => /\ ~mRoot[Root].IsLeaf
                  /\ ChildSlots(Root) = 0..3
                  /\ mTotalNodeCount >= 5

\* C12 witness: the tree of Initialize(512, 0, 3) after an Update.
C12_Witness ==
    /\ frame.valid
    /\ Root \in Nodes
    /\ mTerrainSize = 512 /\ mMinNodeSize = 0 /\ mMaxLODLevels = 3
    /\ mTotalNodeCount = 21

\* C13: as long as Update has never been called, GetVisibleNodeCount() is 0
\* and GetVisibleNodes returns the empty sequence.
C13_EmptyBeforeUpdate ==
    ~updateCalled =>
        /\ mVisibleNodeCount = 0
        /\ outNodes.filled => Returned = <<>>

\* C13 witness: GetVisibleNodes has been called on an initialized tree with
\* more than one node, and Update never.
C13_Witness ==
    /\ ~updateCalled
    /\ outNodes.filled
    /\ Root \in Nodes
    /\ mTotalNodeCount > 1

\* C14: a node of size s at depth d has its four children, and is not a leaf,
\* exactly when s > minNodeSize and d < maxLODLevels - 1; otherwise it is a
\* leaf without children; so every leaf has s <= minNodeSize or
\* d = maxLODLevels - 1.
C14_SubdivideIff ==
    \A n \in Nodes :
        LET cond == mRoot[n].Size > mMinNodeSize /\ Depth(n) < mMaxLODLevels - 1
        IN  /\ cond <=> (~mRoot[n].IsLeaf /\ ChildSlots(n) = 0..3)
            /\ ~cond => (mRoot[n].IsLeaf /\ ChildSlots(n) = {})
            /\ mRoot[n].IsLeaf =>
                   (mRoot[n].Size <= mMinNodeSize \/ Depth(n) = mMaxLODLevels - 1)

\* C14 witness: a tree with a leaf that stopped at the depth limit while larger
\* than the minimum size, after GetVisibleNodes.
C14_Witness ==
    /\ \E n \in Nodes : /\ mRoot[n].IsLeaf
                         /\ mRoot[n].Size > mMinNodeSize
                         /\ mMinNodeSize > 0
                         /\ Depth(n) = mMaxLODLevels - 1
    /\ outNodes.filled

\* Box inner lies inside box outer on all three axes.
BoxInside(inner, outer) ==
    /\ outer.Center.x - outer.Extents.x <= inner.Center.x - inner.Extents.x
    /\ inner.Center.x + inner.Extents.x <= outer.Center.x + outer.Extents.x
    /\ outer.Center.y - outer.Extents.y <= inner.Center.y - inner.Extents.y
    /\ inner.Center.y + inner.Extents.y <= outer.Center.y + outer.Extents.y
    /\ outer.Center.z - outer.Extents.z <= inner.Center.z - inner.Extents.z
    /\ inner.Center.z + inner.Extents.z <= outer.Center.z + outer.Extents.z

\* C15: in every state, the bounding box of every child node lies inside the
\* bounding box of its parent on all three axes.
C15_ChildBoxInParent ==
    \A n \in Nodes \ {Root} : BoxInside(mRoot[n].Bounds, mRoot[Parent(n)].Bounds)

\* C16: a SetHeightRange call, whatever its region, writes MinY, MaxY and the
\* vertical centre and extent of the root's box and nothing else: every other
\* field of the root, every non-root node, the counters, the configuration
\* and the thresholds are as before the call.
C16_RootHeightOnly ==
    [][\A r \in Regions, h \in HeightRanges :
          SetHeightRange(r[1], r[2], r[3], h[1], h[2]) =>
              /\ DOMAIN mRoot' = DOMAIN mRoot
              /\ \A n \in Nodes \ {Root} : mRoot'[n] = mRoot[n]
              /\ Root \in Nodes =>
                     /\ mRoot'[Root].MinY = h[1]
                     /\ mRoot'[Root].MaxY = h[2]
                     /\ 2 * mRoot'[Root].Bounds.Center.y = h[1] + h[2]
                     /\ 2 * (mRoot'[Root].Bounds.Extents.y - 10) = h[2] - h[1]
                     /\ mRoot'[Root].X = mRoot[Root].X
                     /\ mRoot'[Root].Z = mRoot[Root].Z
                     /\ mRoot'[Root].Size = mRoot[Root].Size
                     /\ mRoot'[Root].IsLeaf = mRoot[Root].IsLeaf
                     /\ mRoot'[Root].IsVisible = mRoot[Root].IsVisible
                     /\ mRoot'[Root].LODLevel = mRoot[Root].LODLevel
                     /\ mRoot'[Root].MaxLOD = mRoot[Root].MaxLOD
                     /\ mRoot'[Root].ObjectCBIndex = mRoot[Root].ObjectCBIndex
                     /\ mRoot'[Root].Bounds.Center.x = mRoot[Root].Bounds.Center.x
                     /\ mRoot'[Root].Bounds.Center.z = mRoot[Root].Bounds.Center.z
                     /\ mRoot'[Root].Bounds.Extents.x = mRoot[Root].Bounds.Extents.x
                     /\ mRoot'[Root].Bounds.Extents.z = mRoot[Root].Bounds.Extents.z
              /\ UNCHANGED <<mTerrainSize, mMinNodeSize, mMaxLODLevels, mLODDistances,
                             mVisibleNodeCount, mTotalNodeCount, mNextObjectCBIndex>>
      ]_vars

\* C16 witness: SetHeightRange has run after an Update that left visible nodes
\* below the root: the root has the new range, the other nodes the built one.
C16_Witness ==
    /\ updateCalled
    /\ ~frame.valid
    /\ Root \in Nodes
    /\ mRoot[Root].MinY = 20 /\ mRoot[Root].MaxY = 40
    /\ mRoot[Root].Bounds.Center.y = 30 /\ mRoot[Root].Bounds.Extents.y = 20
    /\ \E n \in Nodes \ {Root} :
           mRoot[n].IsVisible /\ mRoot[n].MinY = 0 /\ mRoot[n].MaxY = 100

\* C17: Intersects is false for a box exactly when, for one of the six planes,
\* all eight corners of the box have a negative signed distance; a node that
\* Update visited has IsVisible false when its box is so rejected.
C17_RejectsIffBehindOnePlane ==
    frame.valid =>
        \A n \in Nodes :
            /\ Intersects(mRoot[n].Bounds, frame.frustumPlanes) <=> ~Culled(n)
            /\ (WasVisited(n) /\ Culled(n)) => ~mRoot[n].IsVisible

\* C17 witness: after an Update, the box of an activated node touches a plane
\* (its farthest corner at distance exactly 0) and passes the test.
C17_Witness ==
    /\ frame.valid
    /\ \E n \in Nodes : \E i \in 1..6 :
           /\ SignedDistance(frame.frustumPlanes[i],
                             PositiveVertex(mRoot[n].Bounds, frame.frustumPlanes[i])) = 0
           /\ Intersects(mRoot[n].Bounds, frame.frustumPlanes)
           /\ n \in frame.activated

\* Squared 3D distance from the camera of the most recent Update to
\* (n.X, (n.MinY + n.MaxY) / 2, n.Z).
DistSq3(n) ==
    (frame.cameraPos.x - mRoot[n].X) * (frame.cameraPos.x - mRoot[n].X)
    + (frame.cameraPos.y - (mRoot[n].MinY + mRoot[n].MaxY) \div 2)
      * (frame.cameraPos.y - (mRoot[n].MinY + mRoot[n].MaxY) \div 2)
    + (frame.cameraPos.z - mRoot[n].Z) * (frame.cameraPos.z - mRoot[n].Z)

\* The distance of n is strictly less than threshold i (1-based) of that Update.
BelowThreshold(n, i) ==
    frame.lodDistances[i] > 0 /\ DistSq3(n) < frame.lodDistances[i] * frame.lodDistances[i]

\* The index (0-based) the claim gives node n: the smallest i with the distance
\* below threshold[i], maxLODLevels - 1 when there is none.
ClaimedLOD(n) ==
    LET idx == {i \in 1..Len(frame.lodDistances) : BelowThreshold(n, i)}
    IN  IF idx = {} THEN mMaxLODLevels - 1
        ELSE (CHOOSE i \in idx : \A j \in idx : i <= j) - 1

\* C18 as claimed: every node Update visited stores that index.
C18_VisitedStoresLOD ==
    frame.valid => \A n \in Nodes : WasVisited(n) => mRoot[n].LODLevel = ClaimedLOD(n)

\* C18 amended: every node Update visited that passed the frustum test stores
\* that index (a node that fails the test keeps the LODLevel it had).
C18_PassingStoresLOD ==
    frame.valid =>
        \A n \in Nodes :
            (WasVisited(n) /\ Intersects(mRoot[n].Bounds, frame.frustumPlanes))
            => mRoot[n].LODLevel = ClaimedLOD(n)

\* C18 witness: a visited node that passed the test lies at a distance equal to
\* the largest threshold, and the thresholds are not as many as the levels.
C18_Witness ==
    /\ frame.valid
    /\ Len(frame.lodDistances) # mMaxLODLevels
    /\ \E n \in Nodes : \E i \in 1..Len(frame.lodDistances) :
           /\ WasVisited(n)
           /\ Intersects(mRoot[n].Bounds, frame.frustumPlanes)
           /\ DistSq3(n) = frame.lodDistances[i] * frame.lodDistances[i]
           /\ \A j \in 1..Len(frame.lodDistances) :
                  frame.lodDistances[j] <= frame.lodDistances[i]
           /\ mRoot[n].LODLevel = mMaxLODLevels - 1

\* C19: after Initialize the thresholds are ascending in the level index.
C19_ThresholdsAscending ==
    Root \in Nodes =>
        \A i \in 1..(Len(mLODDistances) - 1) : mLODDistances[i] <= mLODDistances[i + 1]

\* C20: after Initialize, when SetLODDistances was never called, the
\* thresholds are minNodeSize * 2^(maxLODLevels - i - 1) * 2 for
\* i = 0 .. maxLODLevels - 1, with the arguments of the last Initialize call.
C20_DefaultsOfLastInitialize ==
    (Root \in Nodes /\ ~distancesSupplied) =>
        /\ Len(mLODDistances) = mMaxLODLevels
        /\ \A i \in 0..(mMaxLODLevels - 1) :
               mLODDistances[i + 1] = mMinNodeSize * 2 ^ (mMaxLODLevels - i - 1) * 2

\* The nodes UpdateNode ran on in the most recent Update.
VisitedNodes == {frame.visited[k] : k \in 1..Len(frame.visited)}

\* Those of them that the Update rejected in the frustum test or activated as
\* they are (it went no further down from them).
StoppedNodes ==
    {a \in VisitedNodes :
        ~Intersects(mRoot[a].Bounds, frame.frustumPlanes) \/ a \in frame.activated}

\* C23: a step that leaves the record of an Update (the Update itself, or a
\* later call that keeps its result) has not visited, and has left every field
\* unchanged on, every node below a node that this Update rejected in the
\* frustum test or activated without subdividing.
C23_SubtreeUntouched ==
    [][frame'.valid =>
          \A a \in StoppedNodes' : \A n \in DOMAIN mRoot' :
              IsAncestor(a, n) =>
                  /\ ~WasVisited(n)'
                  /\ n \in DOMAIN mRoot
                  /\ mRoot'[n] = mRoot[n]
      ]_vars

\* C23 witness: after an Update, a node below a rejected node still has the
\* IsVisible flag an earlier Update set, and a node below an activated node exists.
C23_Witness ==
    /\ frame.valid
    /\ \E n \in Nodes : \E a \in Nodes :
           /\ IsAncestor(a, n) /\ WasVisited(a)
           /\ ~Intersects(mRoot[a].Bounds, frame.frustumPlanes)
           /\ mRoot[n].IsVisible
    /\ \E n \in Nodes : \E a \in frame.activated : IsAncestor(a, n)

\* The child slots on the way from the root to n.
RECURSIVE Path(_)
Path(n) == IF n = Root THEN <<>> ELSE Append(Path(Parent(n)), (n - 1) % 4)

\* a comes before b in the depth-first pre-order with children in slot order
\* 0 (NW), 1 (NE), 2 (SW), 3 (SE).
PreOrderBefore(a, b) ==
    LET pa == Path(a)
        pb == Path(b)
    IN  \/ Len(pa) < Len(pb) /\ \A k \in 1..Len(pa) : pa[k] = pb[k]
        \/ \E k \in 1..Len(pa) :
               /\ k <= Len(pb)
               /\ \A j \in 1..(k - 1) : pa[j] = pb[j]
               /\ pa[k] < pb[k]

\* C24: the returned sequence follows the depth-first pre-order (NW, NE, SW,
\* SE) of the tree, the slot numbering of the children is the one BuildTree
\* placed them by, and the slots the most recent Update assigned grow in that
\* same order.
C24_PreOrder ==
    /\ outNodes.filled =>
           \A j, k \in 1..Len(Returned) :
               PreOrderBefore(Returned[j], Returned[k]) <=> j < k
    /\ frame.valid =>
           \A a, b \in frame.activated :
               PreOrderBefore(a, b) <=> mRoot[a].ObjectCBIndex < mRoot[b].ObjectCBIndex
    /\ \A n \in Nodes : ~mRoot[n].IsLeaf =>
           /\ mRoot[Child(n, 0)].X < mRoot[n].X /\ mRoot[Child(n, 0)].Z > mRoot[n].Z
           /\ mRoot[Child(n, 1)].X > mRoot[n].X /\ mRoot[Child(n, 1)].Z > mRoot[n].Z
           /\ mRoot[Child(n, 2)].X < mRoot[n].X /\ mRoot[Child(n, 2)].Z < mRoot[n].Z
           /\ mRoot[Child(n, 3)].X > mRoot[n].X /\ mRoot[Child(n, 3)].Z < mRoot[n].Z

\* C24 witness: nodes of different depths, in different subtrees of the root,
\* are returned after an Update.
C24_Witness ==
    /\ AfterCycle
    /\ \E j, k \in 1..Len(Returned) :
           /\ Depth(Returned[j]) < Depth(Returned[k])
           /\ k < j
    /\ \E j, k \in 1..Len(Returned) :
           /\ Depth(Returned[j]) < Depth(Returned[k])
           /\ j < k

\* n and all of its ancestors pass the frustum test of the most recent Update.
PathPasses(n) ==
    \A a \in Nodes :
        (a = n \/ IsAncestor(a, n)) => Intersects(mRoot[a].Bounds, frame.frustumPlanes)

\* Sum of the footprint areas (Size * Size) of the nodes of a sequence.
RECURSIVE AreaOf(_)
AreaOf(seq) ==
    IF seq = <<>> THEN 0
    ELSE mRoot[Head(seq)].Size * mRoot[Head(seq)].Size + AreaOf(Tail(seq))

\* C25: after Update and GetVisibleNodes, every leaf that passes the frustum
\* test together with all its ancestors has exactly one of them (or itself)
\* returned; with the all-accepting frustum every leaf is so covered and the
\* returned footprints add up to the area of the terrain square.
C25_Coverage ==
    AfterCycle =>
        /\ \A l \in Nodes : (mRoot[l].IsLeaf /\ PathPasses(l)) =>
               Cardinality({k \in 1..Len(Returned) :
                               Returned[k] = l \/ IsAncestor(Returned[k], l)}) = 1
        /\ (frame.frustumPlanes = AcceptAll /\ Root \in Nodes) =>
               AreaOf(Returned) = mTerrainSize * mTerrainSize

\* C25 witness: an Update with a frustum that rejects part of the tree, on a
\* tree with visible nodes left below the rejected part, then GetVisibleNodes;
\* some leaf passes with all its ancestors and is covered by an inner node.
C25_Witness ==
    /\ AfterCycle
    /\ \E a \in Nodes : WasVisited(a) /\ a # Root
                         /\ ~Intersects(mRoot[a].Bounds, frame.frustumPlanes)
    /\ \E l \in Nodes : /\ mRoot[l].IsLeaf /\ PathPasses(l)
                         /\ \E k \in 1..Len(Returned) : IsAncestor(Returned[k], l)

\* No node of the tree carries anything an Update wrote: the fields are those
\* BuildTree left.  (An Update that activates a node sets its IsVisible, and
\* only Initialize replaces the nodes, so a tree in this condition with a
\* count other than 0 has been built after the Update that counted.)
TreeAsBuilt ==
    \A n \in Nodes :
        ~mRoot[n].IsVisible /\ mRoot[n].ObjectCBIndex = 0 /\ mRoot[n].LODLevel = Depth(n)

\* C26: after Initialize and before the next Update, GetVisibleNodeCount() is 0
\* and GetVisibleNodes returns the empty sequence.
C26_InitializeResetsFrame ==
    (Root \in Nodes /\ ~frame.valid /\ TreeAsBuilt) =>
        /\ mVisibleNodeCount = 0
        /\ outNodes.filled => Returned = <<>>

\* Number of nodes reachable from node n over the Children links.
RECURSIVE CountFrom(_)
CountFrom(n) ==
    LET c(i) == IF HasChild(mRoot, n, i) THEN CountFrom(Child(n, i)) ELSE 0
    IN  1 + c(0) + c(1) + c(2) + c(3)

\* C27: in every state GetTotalNodeCount() is the number of nodes reachable
\* from the root, 0 when there is no root.
C27_TotalIsReachable ==
    mTotalNodeCount = IF Root \in Nodes THEN CountFrom(Root) ELSE 0

\* C27 witness: the 5-node tree of Initialize(256, 64, 2), built on a quadtree
\* whose last Update counted more active nodes than this tree has nodes.
C27_Witness ==
    /\ Root \in Nodes
    /\ mTotalNodeCount = 5
    /\ mVisibleNodeCount > 5

\* C28: an Update call that repeats the call before it (same camera, same
\* planes, same thresholds, no Initialize or SetHeightRange in between) leaves
\* every node's fields, the counters, the visited and activated nodes and the
\* result of GetVisibleNodes as the first of the two calls left them.
C28_UpdateIdempotent ==
    [][(/\ frame.valid
        /\ frame'.valid
        /\ frame'.repeated
        /\ frame'.cameraPos = frame.cameraPos
        /\ frame'.frustumPlanes = frame.frustumPlanes
        /\ frame'.lodDistances = frame.lodDistances)
       => /\ mRoot' = mRoot
          /\ mVisibleNodeCount' = mVisibleNodeCount
          /\ mNextObjectCBIndex' = mNextObjectCBIndex
          /\ frame'.visited = frame.visited
          /\ frame'.activated = frame.activated
          /\ VisibleNodesOf(mRoot') = VisibleNodesOf(mRoot)
      ]_vars

\* C28 witness: GetVisibleNodes after a repeated Update that activated several
\* nodes on a tree where an earlier, different Update had left visible nodes
\* in a part this one rejected.
C28_Witness ==
    /\ AfterCycle
    /\ frame.repeated
    /\ mVisibleNodeCount > 1
    /\ \E n \in Nodes : mRoot[n].IsVisible /\ n \notin frame.activated

\* The case of C29: an Update has run with the thresholds Initialize derived
\* (SetLODDistances never called), maxLODLevels >= 2 and minNodeSize > 0.
C29_Case ==
    /\ frame.valid
    /\ ~distancesSupplied
    /\ mMaxLODLevels >= 2
    /\ mMinNodeSize > 0

\* The index C29 gives node n: 0 when its 3D distance is below threshold[0],
\* maxLODLevels - 1 otherwise.
C29_Index(n) == IF BelowThreshold(n, 1) THEN 0 ELSE mMaxLODLevels - 1

\* C29 as claimed: every node Update visited stores 0 or maxLODLevels - 1 so.
C29_VisitedTwoLevels ==
    C29_Case => \A n \in Nodes : WasVisited(n) => mRoot[n].LODLevel = C29_Index(n)

\* C29 amended: every node Update visited that passed the frustum test stores
\* 0 or maxLODLevels - 1 so.
C29_PassingTwoLevels ==
    C29_Case =>
        \A n \in Nodes :
            (WasVisited(n) /\ Intersects(mRoot[n].Bounds, frame.frustumPlanes))
            => mRoot[n].LODLevel = C29_Index(n)

\* C29 witness: with default thresholds, one visited node that passed the test
\* stores maxLODLevels - 1 and another stores 0.
C29_Witness ==
    /\ C29_Case
    /\ \E n, m \in Nodes :
           /\ WasVisited(n) /\ Intersects(mRoot[n].Bounds, frame.frustumPlanes)
           /\ WasVisited(m) /\ Intersects(mRoot[m].Bounds, frame.frustumPlanes)
           /\ ~BelowThreshold(n, 1) /\ mRoot[n].LODLevel = mMaxLODLevels - 1
           /\ BelowThreshold(m, 1) /\ mRoot[m].LODLevel = 0

\* Mutant: one entry per node along a side of the terrain (512 / 64).
MaxObjects_perSide == 512 \div 64

\* The number of per-object constant-buffer entries the application allocates.
MaxObjects == 256

\* The leaves of the tree.
Leaves == {n \in Nodes : mRoot[n].IsLeaf}

\* C30: for the application's tree (512, 64, 5), GetVisibleNodes never returns
\* more nodes than the tree has leaves, and the tree has no more leaves than
\* the application has constant-buffer entries; so every position in the
\* returned list is below MaxObjects.
C30_FitsObjectCB ==
    (AppConfigured /\ outNodes.filled) =>
        /\ Len(Returned) <= Cardinality(Leaves)
        /\ Cardinality(Leaves) <= MaxObjects
        /\ \A k \in 1..Len(Returned) : k - 1 < MaxObjects

\* C30 witness: the application's tree and thresholds, GetVisibleNodes after an
\* Update that left more nodes returned than that Update counted.
C30_Witness ==
    /\ AppConfigured
    /\ distancesSupplied
    /\ AfterCycle
    /\ Len(Returned) > mVisibleNodeCount
    /\ mVisibleNodeCount > 0

\* C21: two quadtrees initialized alike and driven by the same Update,
\* GetVisibleNodes and SetHeightRange calls, with thresholds of their own, have
\* the same nodes, with every field but LODLevel equal (IsVisible and
\* ObjectCBIndex among them), the same count, and return the same sequence.
C21_ThresholdsDoNotSelect ==
    ~twin.heightsDiffer =>
        /\ DOMAIN twin.mRoot = Nodes
        /\ \A n \in Nodes :
               [mRoot[n] EXCEPT !.LODLevel = 0] = [twin.mRoot[n] EXCEPT !.LODLevel = 0]
        /\ mVisibleNodeCount = twin.mVisibleNodeCount
        /\ mNextObjectCBIndex = twin.mNextObjectCBIndex
        /\ outNodes.filled => Returned = twin.nodes

\* C21 witness: after Update and GetVisibleNodes on both, run with different
\* thresholds, several nodes are returned and a node's LODLevel differs.
C21_Witness ==
    /\ ~twin.heightsDiffer
    /\ AfterCycle
    /\ frame.lodDistances # twin.lodDistances
    /\ Len(Returned) > 1
    /\ \E n \in Nodes : mRoot[n].LODLevel # twin.mRoot[n].LODLevel

\* The case of C22: both quadtrees have run the same Update, with an
\* all-accepting frustum and the same thresholds, and their roots have
\* different height ranges.
C22_Case ==
    /\ frame.valid
    /\ Root \in Nodes
    /\ frame.frustumPlanes = AcceptAll
    /\ frame.lodDistances = twin.lodDistances
    /\ <<mRoot[Root].MinY, mRoot[Root].MaxY>>
           # <<twin.mRoot[Root].MinY, twin.mRoot[Root].MaxY>>

\* C22 as claimed: the same nodes are activated and every visited node stores
\* the same LODLevel in both.
C22_HeightIgnored ==
    C22_Case =>
        /\ frame.activated = twin.activated
        /\ \A n \in VisitedNodes : mRoot[n].LODLevel = twin.mRoot[n].LODLevel

\* C22 amended: the same nodes are activated, with the same slots, and every
\* visited node other than the root stores the same LODLevel in both.
C22_HeightMovesRootLODOnly ==
    C22_Case =>
        /\ frame.activated = twin.activated
        /\ mVisibleNodeCount = twin.mVisibleNodeCount
        /\ \A n \in frame.activated :
               mRoot[n].ObjectCBIndex = twin.mRoot[n].ObjectCBIndex
        /\ \A n \in VisitedNodes \ {Root} :
               mRoot[n].LODLevel = twin.mRoot[n].LODLevel

\* C22 witness: in that case the roots store different LOD indices and
\* several nodes are activated.
C22_Witness ==
    /\ C22_Case
    /\ mRoot[Root].LODLevel # twin.mRoot[Root].LODLevel
    /\ Cardinality(frame.activated) > 1

====
